---- MODULE Spec2Model ----
(***************************************************************************)
(* Model of poem-openapi-derive's Object derive (src/poem-openapi-derive/  *)
(* src/object.rs): generate turns an ObjectArgs descriptor into the      *)
(* Type / ParseFromJSON / ToJSON implementations of a struct.  The model    *)
(* keeps the descriptor, the expansion generate returns, and then runs   *)
(* the expanded code (parse_from_json, to_json, register) on JSON values,  *)
(* instances and a schema registry.                                        *)
(***************************************************************************)
EXTENDS Integers, Sequences, FiniteSets, TLC

VARIABLES args, expanded, registry, last

vars == <<args, expanded, registry, last>>

(***************************************************************************)
(* Bounds of the model.                                                    *)
(***************************************************************************)
\* integers carried by fields and JSON numbers are 0..MaxVal
MaxVal == 1
\* an input JSON object holds at most MaxKeys keys
MaxKeys == 2
\* a descriptor of the codec specifications sets at most MaxMods attributes
MaxMods == 2
\* a descriptor of the generate specification sets at most MaxGenMods attributes
MaxGenMods == 3

\* keys of JSON objects: the field identifiers "a" and "b", and "c", which is
\* the rename target, the key of Inner's field, and otherwise an unknown key
Keys == {"a", "b", "c"}
FieldIdents == <<"a", "b">>
RenameTo == "c"

(***************************************************************************)
(* serde_json::Value and Option<Value>.  A Map is a function on Keys whose *)
(* value is Absent for a key the map does not hold.                        *)
(***************************************************************************)
Absent == [t |-> "absent"]
Null == [t |-> "null"]
Num(n) == [t |-> "num", n |-> n]
Obj(m) == [t |-> "obj", o |-> m]

EmptyMap == [k \in Keys |-> Absent]
MapKeys(m) == {k \in Keys : m[k] # Absent}
\* a variant that takes a key holding null for a missing key
contains_non_null_key(m, k) == m[k] \notin {Absent, Null}

contains_key(m, k) == m[k] # Absent
remove(m, k) == [m EXCEPT ![k] = Absent]
insert(m, k, v) == [m EXCEPT ![k] = v]
\* a variant that keeps the entry already there
extend_absent(m, other) == [k \in Keys |-> IF m[k] # Absent THEN m[k] ELSE other[k]]

extend(m, other) == [k \in Keys |-> IF other[k] # Absent THEN other[k] ELSE m[k]]

\* a variant that turns a missing value into an empty object
unwrap_or_empty_object(value) == IF value = Absent THEN Obj(EmptyMap) ELSE value

\* Option<Value>::unwrap_or_default(): Value::default() is Value::Null
unwrap_or_default(value) == IF value = Absent THEN Null ELSE value

(***************************************************************************)
(* Field values of instances.                                              *)
(***************************************************************************)
IntV(n) == [k |-> "int", v |-> n]
NoneV == [k |-> "none"]
SomeV(n) == [k |-> "some", v |-> n]
StructV(s) == [k |-> "struct", s |-> s]

Ok(v) == [ok |-> TRUE, v |-> v]
Err(e) == [ok |-> FALSE, e |-> e]

\* ParseError::expected_type / ParseError::custom; names are the keys the
\* message of an unknown-field error may name
ExpectedType == [kind |-> "expected_type", names |-> {}]
ReadOnlyError(name) == [kind |-> "read_only", names |-> {name}]
UnknownField(ks) == [kind |-> "unknown_field", names |-> ks]
ValidatorError(name) == [kind |-> "validator", names |-> {name}]
\* ParseError::propagate keeps the message and changes the error's type
propagate(e) == e

(***************************************************************************)
(* The descriptor: ObjectField and ObjectArgs.  rename_all, deprecated,    *)
(* internal, external_docs and the doc attributes are left unset.          *)
(***************************************************************************)
None == "None"

\* Validators of a field: a sequence of rules, checked in order
Maximum(m) == [rule |-> "maximum", arg |-> m]
ValidatorSets == {<<>>, <<Maximum(0)>>}

ObjectField(ident, ty, flatten) ==
    [ident |-> ident, ty |-> ty, skip |-> FALSE, rename |-> None,
     default |-> None, write_only |-> FALSE, read_only |-> FALSE,
     validator |-> <<>>, flatten |-> flatten]

ConcreteType(name, params, example) ==
    [name |-> name, params |-> params, example |-> example]

ObjectArgs(ident, fields) ==
    [ident |-> ident, fields |-> fields, inline |-> FALSE, rename |-> None,
     concretes |-> <<>>, read_only_all |-> FALSE, write_only_all |-> FALSE,
     example |-> None, deny_unknown_fields |-> FALSE]

\* the object type the fields of the model may hold: struct Inner { c: i32 }
InnerArgs == ObjectArgs("Inner", <<ObjectField(RenameTo, "Int", FALSE)>>)

(***************************************************************************)
(* generate, lines 73-482.                                                 *)
(***************************************************************************)
read_only(a, field) == a.read_only_all \/ field.read_only
write_only(a, field) == a.write_only_all \/ field.write_only

field_name(a, field) == IF field.rename # None THEN field.rename ELSE field.ident


\* a variant that tests flatten before read_only
deserialize_field_flatten_first(a, field) ==
    LET step(kind) == [kind |-> kind, ident |-> field.ident, ty |-> field.ty,
                       name |-> field_name(a, field), default |-> field.default,
                       validators |-> field.validator]
    IN  IF field.skip THEN step("skip")
        ELSE IF field.flatten THEN step("flatten")
        ELSE IF read_only(a, field) THEN step("read_only")
        ELSE IF field.default # None THEN step("default") ELSE step("value")

\* the statement pushed to deserialize_fields for a field
deserialize_field(a, field) ==
    LET step(kind) == [kind |-> kind, ident |-> field.ident, ty |-> field.ty,
                       name |-> field_name(a, field), default |-> field.default,
                       validators |-> field.validator]
    IN  IF field.skip THEN step("skip")
        ELSE IF read_only(a, field) THEN step("read_only")
        ELSE IF ~field.flatten
             THEN IF field.default # None THEN step("default") ELSE step("value")
        ELSE step("flatten")

\* a variant that writes a field under its identifier, not its serialized name
serialize_field_by_ident(a, field) ==
    LET step(kind) == [kind |-> kind, ident |-> field.ident, ty |-> field.ty,
                       name |-> field.ident]
    IN  IF ~field.flatten
        THEN IF ~write_only(a, field) THEN <<step("insert")>> ELSE <<>>
        ELSE <<step("extend")>>

\* the statements pushed to serialize_fields for a non-skip field
serialize_field(a, field) ==
    LET step(kind) == [kind |-> kind, ident |-> field.ident, ty |-> field.ty,
                       name |-> field_name(a, field)]
    IN  IF ~field.flatten
        THEN IF ~write_only(a, field) THEN <<step("insert")>> ELSE <<>>
        ELSE <<step("extend")>>

\* the entry pushed to meta_fields and the one pushed to required_fields
meta_field(a, field) ==
    [flatten |-> field.flatten, ty |-> field.ty, name |-> field_name(a, field),
     default |-> field.default, read_only |-> read_only(a, field),
     write_only |-> write_only(a, field), validators |-> field.validator]
required_field(a, field) ==
    [flatten |-> field.flatten, ty |-> field.ty, name |-> field_name(a, field),
     has_default |-> field.default # None]

EmptyVecs ==
    [deserialize_fields |-> <<>>, serialize_fields |-> <<>>, register_types |-> <<>>,
     fields |-> <<>>, meta_fields |-> <<>>, required_fields |-> <<>>, err |-> None]

\* one pass of the loop over s.fields
field_pass(a, field, acc) ==
    IF field.skip
    THEN [acc EXCEPT !.deserialize_fields = Append(@, deserialize_field(a, field)),
                     !.fields = Append(@, field.ident)]
    ELSE IF read_only(a, field) /\ write_only(a, field)
    THEN [acc EXCEPT !.err = "The write_only and read_only attributes cannot be enabled both."]
    ELSE [acc EXCEPT !.fields = Append(@, field.ident),
                     !.deserialize_fields = Append(@, deserialize_field(a, field)),
                     !.serialize_fields = @ \o serialize_field(a, field),
                     !.register_types = IF ~field.flatten THEN Append(@, field.ty) ELSE @,
                     !.meta_fields = Append(@, meta_field(a, field)),
                     !.required_fields = Append(@, required_field(a, field))]

RECURSIVE field_loop(_, _, _)
field_loop(a, i, acc) ==
    IF i > Len(a.fields) \/ acc.err # None THEN acc
    ELSE field_loop(a, i + 1, field_pass(a, a.fields[i], acc))

Reference(name) == [kind |-> "Reference", name |-> name]
Inline(meta) == [kind |-> "Inline", meta |-> meta]

\* the MetaSchema expression meta, lines 274-292, before its example is set
meta_expr(vecs) ==
    [required |-> vecs.required_fields, properties |-> vecs.meta_fields,
     example |-> None]

\* the impls of a type without concretes, lines 303-387
plain_impl(a, vecs) ==
    LET oai_typename == IF a.rename # None THEN a.rename ELSE a.ident
    IN  [name |-> oai_typename,
         schema_ref |-> IF a.inline
                        THEN Inline([meta_expr(vecs) EXCEPT !.example = a.example])
                        ELSE Reference(oai_typename),
         register |-> IF a.inline THEN "inline" ELSE "referenced",
         example |-> a.example,
         params |-> "Int"]

\* a variant that gives every concrete type the example of the first
concrete_impl_first_example(a, concrete) ==
    [name |-> concrete.name,
     schema_ref |-> Reference(concrete.name),
     register |-> "concrete",
     example |-> a.concretes[1].example,
     params |-> concrete.params]

\* the impls of one concrete type, lines 421-476
concrete_impl(a, concrete) ==
    [name |-> concrete.name,
     schema_ref |-> Reference(concrete.name),
     register |-> "concrete",
     example |-> concrete.example,
     params |-> concrete.params]

generate(a) ==
    IF a.inline /\ a.concretes # <<>>
    THEN Err("Inline objects cannot have the concretes attribute.")
    ELSE IF a.example # None /\ a.concretes # <<>>
    THEN Err("The example should be specified with the concretes.example attribute.")
    ELSE LET vecs == field_loop(a, 1, EmptyVecs)
         IN  IF vecs.err # None THEN Err(vecs.err)
             ELSE Ok([deserialize_fields |-> vecs.deserialize_fields,
                      serialize_fields |-> vecs.serialize_fields,
                      register_types |-> vecs.register_types,
                      fields |-> vecs.fields,
                      meta |-> meta_expr(vecs),
                      deny_unknown_fields |-> a.deny_unknown_fields,
                      impls |-> IF a.concretes = <<>>
                                THEN <<plain_impl(a, vecs)>>
                                ELSE [i \in 1..Len(a.concretes) |->
                                        concrete_impl(a, a.concretes[i])]])

(***************************************************************************)
(* The field types: i32 ("Int"), Option<i32> ("OptInt"), the derived       *)
(* struct Inner, and the type parameter "T" of a template, which a         *)
(* concrete type binds to its `params`.                                    *)
(***************************************************************************)
InnerCode == generate(InnerArgs).v

Resolve(ty, params) == IF ty = "T" THEN params ELSE ty

\* <ty as Default>::default()
type_default(ty) ==
    CASE ty = "Int" -> IntV(0)
      [] ty = "OptInt" -> NoneV
      [] ty = "Inner" -> StructV([id \in {RenameTo} |-> IntV(0)])

\* the factory a `default = "func_name"` attribute names
function_default(ty) ==
    CASE ty = "Int" -> IntV(1)
      [] ty = "OptInt" -> SomeV(1)
      [] ty = "Inner" -> StructV([id \in {RenameTo} |-> IntV(1)])

default_value(default, ty) ==
    IF default = "Function" THEN function_default(ty) ELSE type_default(ty)

\* <ty as Type>::IS_REQUIRED
IS_REQUIRED(ty) == ty # "OptInt"

\* the checker the validators of a field expand to: the first failing rule
\* fails the field; a value without a raw integer passes
validators_checker(validators, name, value) ==
    IF value.k \in {"int", "some"}
       /\ \E i \in 1..Len(validators) :
             validators[i].rule = "maximum" /\ value.v > validators[i].arg
    THEN Err(ValidatorError(name))
    ELSE Ok(value)

(***************************************************************************)
(* The expanded parse_from_json, lines 366-378 and 401-411, and the        *)
(* statements of deserialize_fields it runs.                               *)
(***************************************************************************)
RECURSIVE parse_from_json(_, _, _)
RECURSIVE type_parse_from_json(_, _)

\* <ty as ParseFromJSON>::parse_from_json(value)
type_parse_from_json(ty, value) ==
    CASE ty = "Int" ->
           IF value.t = "num" THEN Ok(IntV(value.n)) ELSE Err(ExpectedType)
      [] ty = "OptInt" ->
           IF value.t \in {"absent", "null"} THEN Ok(NoneV)
           ELSE IF value.t = "num" THEN Ok(SomeV(value.n))
           ELSE Err(ExpectedType)
      [] ty = "Inner" -> parse_from_json(InnerCode, "Int", value)

\* parse, map_err(propagate), then the validators
parse_and_check(step, ty, value) ==
    LET parsed == type_parse_from_json(ty, value)
    IN  IF ~parsed.ok THEN Err(propagate(parsed.e))
        ELSE validators_checker(step.validators, step.name, parsed.v)

\* a variant whose default applies to a missing key only, not to null
deserialize_step_null_parsed(step, params, obj) ==
    LET ty == Resolve(step.ty, params)
    IN  CASE step.kind = "skip" ->
               [obj |-> obj, res |-> Ok(type_default(ty))]
          [] step.kind = "read_only" ->
               [obj |-> obj,
                res |-> IF contains_key(obj, step.name)
                        THEN Err(ReadOnlyError(step.name))
                        ELSE Ok(type_default(ty))]
          [] step.kind = "default" ->
               [obj |-> remove(obj, step.name),
                res |-> IF obj[step.name] = Absent
                        THEN Ok(default_value(step.default, ty))
                        ELSE parse_and_check(step, ty, obj[step.name])]
          [] step.kind = "value" ->
               [obj |-> remove(obj, step.name),
                res |-> parse_and_check(step, ty, obj[step.name])]
          [] step.kind = "flatten" ->
               [obj |-> obj,
                res |-> LET parsed == type_parse_from_json(ty, Obj(obj))
                        IN  IF parsed.ok THEN parsed ELSE Err(propagate(parsed.e))]

\* one statement of deserialize_fields on the working map obj: the map it
\* leaves and the value it binds, or the error it returns
deserialize_step(step, params, obj) ==
    LET ty == Resolve(step.ty, params)
    IN  CASE step.kind = "skip" ->
               [obj |-> obj, res |-> Ok(type_default(ty))]
          [] step.kind = "read_only" ->
               [obj |-> obj,
                res |-> IF contains_key(obj, step.name)
                        THEN Err(ReadOnlyError(step.name))
                        ELSE Ok(type_default(ty))]
          [] step.kind = "default" ->
               [obj |-> remove(obj, step.name),
                res |-> IF obj[step.name] \in {Null, Absent}
                        THEN Ok(default_value(step.default, ty))
                        ELSE parse_and_check(step, ty, obj[step.name])]
          [] step.kind = "value" ->
               [obj |-> remove(obj, step.name),
                res |-> parse_and_check(step, ty, obj[step.name])]
          [] step.kind = "flatten" ->
               [obj |-> obj,
                res |-> LET parsed == type_parse_from_json(ty, Obj(obj))
                        IN  IF parsed.ok THEN parsed ELSE Err(propagate(parsed.e))]

\* #(#deserialize_fields)* from statement i on: the first error, or the map
\* left and the bound values
RECURSIVE deserialize_all(_, _, _, _, _)
deserialize_all(steps, i, params, obj, bound) ==
    IF i > Len(steps) THEN [ok |-> TRUE, obj |-> obj, bound |-> bound]
    ELSE LET r == deserialize_step(steps[i], params, obj)
         IN  IF ~r.res.ok THEN [ok |-> FALSE, e |-> r.res.e, at |-> i]
             ELSE deserialize_all(steps, i + 1, params, r.obj,
                                  (steps[i].ident :> r.res.v) @@ bound)

\* a variant that expands to nothing whether or not the attribute is set
deny_unknown_fields_unset(code, obj) == Ok(obj)

\* #deny_unknown_fields, lines 293-301: the error names the first key the
\* map's iterator yields; any key left may be that one
deny_unknown_fields(code, obj) ==
    IF code.deny_unknown_fields /\ MapKeys(obj) # {}
    THEN Err(UnknownField(MapKeys(obj)))
    ELSE Ok(obj)

parse_from_json(code, params, value) ==
    LET v == unwrap_or_default(value)
    IN  IF v.t = "obj"
        THEN LET r == deserialize_all(code.deserialize_fields, 1, params, v.o, <<>>)
             IN  IF ~r.ok THEN Err(r.e)
                 ELSE LET d == deny_unknown_fields(code, r.obj)
                      IN  IF ~d.ok THEN d ELSE Ok(StructV(r.bound))
        ELSE Err(ExpectedType)

(***************************************************************************)
(* The expanded to_json, lines 380-386 and 413-417, and the statements of  *)
(* serialize_fields it runs.                                               *)
(***************************************************************************)
RECURSIVE to_json(_, _, _)
RECURSIVE type_to_json(_, _)

\* <ty as ToJSON>::to_json(&value): Absent is Option::None
type_to_json(ty, value) ==
    CASE ty = "Int" -> Num(value.v)
      [] ty = "OptInt" -> IF value.k = "none" THEN Absent ELSE Num(value.v)
      [] ty = "Inner" -> to_json(InnerCode, "Int", value.s)

serialize_step(step, params, self, object) ==
    LET value == type_to_json(Resolve(step.ty, params), self[step.ident])
    IN  IF step.kind = "insert"
        THEN IF value # Absent THEN insert(object, step.name, value) ELSE object
        ELSE IF value.t = "obj" THEN extend(object, value.o) ELSE object

RECURSIVE serialize_all(_, _, _, _, _)
serialize_all(steps, i, params, self, object) ==
    IF i > Len(steps) THEN object
    ELSE serialize_all(steps, i + 1, params, self,
                       serialize_step(steps[i], params, self, object))

to_json(code, params, self) ==
    Obj(serialize_all(code.serialize_fields, 1, params, self, EmptyMap))

(***************************************************************************)
(* The expanded register, lines 312-334, 353-355, 393-399 and 452-456, on  *)
(* a registry and the list `built` of the names whose schema body has been *)
(* built so far.                                                           *)
(***************************************************************************)
SchemaNames == {"Obj", "Renamed", "IntWrapper", "OptWrapper", "Inner"}
EmptyRegistry == [n \in SchemaNames |-> Absent]

RECURSIVE meta_schema(_, _)

\* Registry::create_fake_schema::<ty>(): the schema body of ty
create_fake_schema(ty) ==
    IF ty = "Inner" THEN meta_schema(InnerCode, "Int")
    ELSE [required |-> <<>>, properties |-> <<>>, example |-> None]

RECURSIVE required_names(_, _, _)
required_names(entries, i, params) ==
    IF i > Len(entries) THEN <<>>
    ELSE LET e == entries[i]
             ty == Resolve(e.ty, params)
             mine == IF e.flatten THEN create_fake_schema(ty).required
                     ELSE IF IS_REQUIRED(ty) /\ ~e.has_default THEN <<e.name>>
                     ELSE <<>>
         IN  mine \o required_names(entries, i + 1, params)

RECURSIVE property_list(_, _, _)
property_list(entries, i, params) ==
    IF i > Len(entries) THEN <<>>
    ELSE LET e == entries[i]
             ty == Resolve(e.ty, params)
             mine == IF e.flatten THEN create_fake_schema(ty).properties
                     ELSE <<[name |-> e.name, schema_ref |-> ty, default |-> e.default,
                             read_only |-> e.read_only, write_only |-> e.write_only,
                             validators |-> e.validators]>>
         IN  mine \o property_list(entries, i + 1, params)

\* what the expression `meta` evaluates to
meta_schema(code, params) ==
    [required |-> required_names(code.meta.required, 1, params),
     properties |-> property_list(code.meta.properties, 1, params),
     example |-> code.meta.example]

\* Registry::create_schema finds the name: the closure is not called
schema_exists(reg, name) == reg[name] # Absent

RECURSIVE register(_, _, _)

\* <ty as Type>::register(registry)
type_register(ty, rs) ==
    IF ty = "Inner" THEN register(InnerCode, InnerCode.impls[1], rs) ELSE rs

\* #(#register_types)*
RECURSIVE register_types(_, _, _, _)
register_types(tys, i, params, rs) ==
    IF i > Len(tys) THEN rs
    ELSE register_types(tys, i + 1, params, type_register(Resolve(tys[i], params), rs))

\* #(#register_types)* followed by #meta: the registry left and the body built
create_meta(code, impl, rs) ==
    LET after == register_types(code.register_types, 1, impl.params, rs)
    IN  [rs |-> [after EXCEPT !.built = Append(@, impl.name)],
         meta |-> [meta_schema(code, impl.params) EXCEPT !.example = impl.example]]

register_inline(code, impl, rs) ==
    register_types(code.register_types, 1, impl.params, rs)

register_referenced(code, impl, rs) ==
    IF schema_exists(rs.registry, impl.name) THEN rs
    ELSE LET m == create_meta(code, impl, rs)
         IN  [m.rs EXCEPT !.registry[impl.name] = m.meta]

register_concrete(code, impl, rs) ==
    LET m == create_meta(code, impl, rs)
    IN  IF schema_exists(m.rs.registry, impl.name) THEN m.rs
        ELSE [m.rs EXCEPT !.registry[impl.name] = m.meta]

register(code, impl, rs) ==
    CASE impl.register = "inline" -> register_inline(code, impl, rs)
      [] impl.register = "referenced" -> register_referenced(code, impl, rs)
      [] impl.register = "concrete" -> register_concrete(code, impl, rs)

(***************************************************************************)
(* The descriptors, JSON inputs and instances the model draws from.        *)
(***************************************************************************)
Bit(b) == IF b THEN 1 ELSE 0

\* type and flatten flag of a field
Shapes == {<<"Int", FALSE>>, <<"OptInt", FALSE>>, <<"Inner", FALSE>>, <<"Inner", TRUE>>}

AllFields(ident) ==
    {[ident |-> ident, ty |-> sh[1], flatten |-> sh[2], skip |-> sk, rename |-> rn,
      default |-> df, write_only |-> wo, read_only |-> ro, validator |-> vd] :
        sh \in Shapes, sk \in BOOLEAN, rn \in {None, RenameTo},
        df \in {None, "Default", "Function"}, wo \in BOOLEAN, ro \in BOOLEAN,
        vd \in ValidatorSets}

FieldMods(f) ==
    Bit(f.skip) + Bit(f.rename # None) + Bit(f.default # None) + Bit(f.write_only)
    + Bit(f.read_only) + Bit(f.validator # <<>>)

ConcreteLists ==
    {<<>>} \cup
    {<<ConcreteType("IntWrapper", "Int", e1), ConcreteType("OptWrapper", "OptInt", e2)>> :
        e1 \in {None, "int_example"}, e2 \in {None, "opt_example"}}

AllTypeLevel ==
    [inline : BOOLEAN, rename : {None, "Renamed"}, concretes : ConcreteLists,
     read_only_all : BOOLEAN, write_only_all : BOOLEAN, example : {None, "obj_example"},
     deny_unknown_fields : BOOLEAN]

RECURSIVE ConcreteMods(_, _)
ConcreteMods(cs, i) ==
    IF i > Len(cs) THEN 0 ELSE Bit(cs[i].example # None) + ConcreteMods(cs, i + 1)

TypeMods(t) ==
    Bit(t.inline) + Bit(t.rename # None) + Bit(t.concretes # <<>>)
    + ConcreteMods(t.concretes, 1) + Bit(t.read_only_all) + Bit(t.write_only_all)
    + Bit(t.example # None) + Bit(t.deny_unknown_fields)

\* struct Obj { fields } or, with concretes, the template struct Obj<T>, whose
\* first field has type T
Descriptor(fields, t) ==
    [ident |-> "Obj",
     fields |-> IF t.concretes # <<>> THEN [fields EXCEPT ![1].ty = "T"] ELSE fields,
     inline |-> t.inline, rename |-> t.rename, concretes |-> t.concretes,
     read_only_all |-> t.read_only_all, write_only_all |-> t.write_only_all,
     example |-> t.example, deny_unknown_fields |-> t.deny_unknown_fields]

\* the fields and the type-level attribute sets, by the number of attributes set
FieldsByMods ==
    [id \in {FieldIdents[1], FieldIdents[2]} |->
        [n \in 0..6 |-> {f \in AllFields(id) : FieldMods(f) = n}]]
TypeLevelByMods == [n \in 0..9 |-> {u \in AllTypeLevel : TypeMods(u) = n}]

FieldLists(na, nb) ==
    {<<fa, fb>> : fa \in FieldsByMods[FieldIdents[1]][na],
                  fb \in FieldsByMods[FieldIdents[2]][nb]}
    \cup (IF nb = 0 THEN {<<fa>> : fa \in FieldsByMods[FieldIdents[1]][na]} ELSE {})

\* d is a descriptor with at most m attributes set
Descriptors(d, m) ==
    \E s \in {x \in (0..m) \X (0..m) \X (0..m) : x[1] + x[2] + x[3] <= m} :
        \E fs \in FieldLists(s[1], s[2]), t \in TypeLevelByMods[s[3]] :
            d = Descriptor(fs, t)

\* a template's type parameter stands in the place of a plain i32 field
WellFormed(d) ==
    d.concretes # <<>> => d.fields[1].ty = "T" /\ ~d.fields[1].flatten

JsonScalars == {Null} \cup {Num(n) : n \in 0..MaxVal}

Inputs ==
    {Absent, Null, Num(0)} \cup
    {Obj(m) : m \in {x \in [Keys -> JsonScalars \cup {Absent}] :
                        Cardinality(MapKeys(x)) <= MaxKeys}}

TypeValues(ty) ==
    CASE ty = "Int" -> {IntV(n) : n \in 0..MaxVal}
      [] ty = "OptInt" -> {NoneV} \cup {SomeV(n) : n \in 0..MaxVal}
      [] ty = "Inner" -> {StructV([id \in {RenameTo} |-> IntV(n)]) : n \in 0..MaxVal}

AllValues == TypeValues("Int") \cup TypeValues("OptInt") \cup TypeValues("Inner")

\* the instances of the struct a descriptor describes
Instances(a, params) ==
    LET idents == {a.fields[i].ident : i \in 1..Len(a.fields)}
        ty(id) == LET i == CHOOSE j \in 1..Len(a.fields) : a.fields[j].ident = id
                  IN  Resolve(a.fields[i].ty, params)
    IN  {x \in [idents -> AllValues] : \A id \in idents : x[id] \in TypeValues(ty(id))}

(***************************************************************************)
(* The state machine: the derive runs once on the descriptor; the impls it *)
(* expands to are then called.                                             *)
(***************************************************************************)
Pending == [ok |-> FALSE, e |-> "pending"]

InitWith(m) ==
    /\ Descriptors(args, m)
    /\ WellFormed(args)
    /\ expanded = Pending
    /\ registry = EmptyRegistry
    /\ last = [op |-> "init"]

Generate ==
    /\ expanded = Pending
    /\ expanded' = generate(args)
    /\ last' = [op |-> "generate"]
    /\ UNCHANGED <<args, registry>>

Impls == IF expanded.ok THEN 1..Len(expanded.v.impls) ELSE {}

\* parse_from_json and to_json are pure: they leave the descriptor, the
\* expansion and the registry as they are, and `last` only records the call.
\* Each call is therefore explored once, from the state generate leaves.
Fresh == last.op = "generate"

\* the results a call may return: an unknown-field error names one of the keys
\* left, whichever the map's iterator yields first
Outcomes(r) ==
    IF r.ok THEN {r}
    ELSE IF r.e.kind = "unknown_field" THEN {Err(UnknownField({k})) : k \in r.e.names}
    ELSE {r}

\* <impl as ParseFromJSON>::parse_from_json(value)
Parse ==
    /\ Fresh
    /\ \E i \in Impls, value \in Inputs :
          \E res \in Outcomes(parse_from_json(expanded.v, expanded.v.impls[i].params, value)) :
              last' = [op |-> "parse", impl |-> i, value |-> value, res |-> res]
    /\ UNCHANGED <<args, expanded, registry>>

\* <impl as ToJSON>::to_json(&self)
ToJson ==
    /\ Fresh
    /\ \E i \in Impls :
          \E self \in Instances(args, expanded.v.impls[i].params) :
              last' = [op |-> "to_json", impl |-> i, self |-> self,
                       out |-> to_json(expanded.v, expanded.v.impls[i].params, self)]
    /\ UNCHANGED <<args, expanded, registry>>

\* parse_from_json(Some(value)) on the value to_json has just returned
ParseSerialized ==
    /\ last.op = "to_json"
    /\ last' = [op |-> "round_trip", impl |-> last.impl, self |-> last.self,
                out |-> last.out,
                res |-> parse_from_json(expanded.v, expanded.v.impls[last.impl].params,
                                        last.out)]
    /\ UNCHANGED <<args, expanded, registry>>

\* <impl as Type>::register(&mut registry)
Register ==
    \E i \in Impls :
        LET rs == register(expanded.v, expanded.v.impls[i],
                           [registry |-> registry, built |-> <<>>])
        IN  /\ registry' = rs.registry
            /\ last' = [op |-> "register", impl |-> i, before |-> registry,
                        built |-> rs.built]
            /\ UNCHANGED <<args, expanded>>

\* the derive alone, on every descriptor
InitGen == InitWith(MaxGenMods)
NextGen == Generate
SpecGen == InitGen /\ [][NextGen]_vars

\* the derive and ParseFromJSON, on descriptors whose object-typed fields are
\* flattened (the inputs hold no nested object)
InitParse ==
    /\ InitWith(MaxMods)
    /\ \A i \in 1..Len(args.fields) : args.fields[i].ty = "Inner" => args.fields[i].flatten
NextParse == Generate \/ Parse
SpecParse == InitParse /\ [][NextParse]_vars

\* the derive, ToJSON and ParseFromJSON of what ToJSON returned
InitSer == InitWith(MaxMods)
NextSer == Generate \/ ToJson \/ ParseSerialized
SpecSer == InitSer /\ [][NextSer]_vars

\* the derive and Type::register
InitReg == InitWith(MaxMods)
NextReg == Generate \/ Register
SpecReg == InitReg /\ [][NextReg]_vars

(***************************************************************************)
(* Properties.                                                             *)
(***************************************************************************)
Parsed == last.op = "parse"
Code == expanded.v
ParamsOf(i) == expanded.v.impls[i].params
IsObject(value) == value.t = "obj"
NonSkip == {i \in 1..Len(args.fields) : ~args.fields[i].skip}
\* the field descriptor as the impl sees it, and its serialized name
Field(i) == args.fields[i]
NameOf(i) == IF Field(i).rename # None THEN Field(i).rename ELSE Field(i).ident
IsReadOnly(i) == args.read_only_all \/ Field(i).read_only
IsWriteOnly(i) == args.write_only_all \/ Field(i).write_only

\* C1 as claimed: parse_from_json called with no value or with JSON null
\* behaves as parse_from_json called with the empty object {}: it does not
\* fail with ExpectedType and returns what the call on {} returns.
C1_NullAsEmptyObject ==
    Parsed /\ last.value \in {Absent, Null} =>
        /\ last.res # Err(ExpectedType)
        /\ last.res \in Outcomes(parse_from_json(Code, ParamsOf(last.impl), Obj(EmptyMap)))

\* C1 amended: parse_from_json called with no value or with JSON null fails
\* with ExpectedType for every type, plain or concrete, also where the call
\* on the empty object {} succeeds; a value that is not a JSON object never
\* reaches the field statements.
C1_NullIsExpectedType ==
    Parsed /\ ~IsObject(last.value) =>
        last.res = Err(ExpectedType)

\* C1 witness: a call with no value failed with ExpectedType on a type whose
\* parse of {} succeeds.
C1_Witness ==
    /\ Parsed /\ last.value = Absent
    /\ last.res = Err(ExpectedType)
    /\ parse_from_json(Code, ParamsOf(last.impl), Obj(EmptyMap)).ok

\* the type of field i as impl p sees it
TypeOf(i, p) == Resolve(Field(i).ty, ParamsOf(p))
\* field i takes its value from its own key of the working map and removes it
ConsumesKey(i) == ~Field(i).skip /\ ~IsReadOnly(i) /\ ~Field(i).flatten
\* what the statements of the fields declared before field i leave of map m
Before(i, p, m) ==
    deserialize_all(SubSeq(Code.deserialize_fields, 1, i - 1), 1, ParamsOf(p), m, <<>>)

\* C2 as claimed: for every field whose effective access mode is read-only,
\* whatever its other modifiers, parse of any object holding the field's key
\* fails (read as: does not succeed, so that an error of a field declared
\* earlier does not count against the claim), and with the key missing the
\* field takes its type's default.
C2_ReadOnlyAlwaysRejected ==
    Parsed /\ IsObject(last.value) =>
        \A i \in 1..Len(args.fields) :
            IsReadOnly(i) =>
                /\ last.value.o[NameOf(i)] # Absent =>
                      ~last.res.ok
                /\ last.value.o[NameOf(i)] = Absent /\ last.res.ok =>
                      last.res.v.s[Field(i).ident] = type_default(TypeOf(i, last.impl))

\* C2 amended: for every field that is not skip and whose effective access
\* mode is read-only, with serialized name k: parse fails with the read-only
\* error for k whenever the statements of the fields declared before it
\* succeed and the working map still holds k, whatever the value under k and
\* whether or not the field is flatten or has a default or validators; parse
\* of an object holding k never succeeds unless an earlier field that
\* consumes its key has the same serialized name; and whenever parse succeeds
\* the field holds its type's default.
C2_ReadOnlyRejected ==
    Parsed /\ IsObject(last.value) =>
        \A i \in NonSkip :
            IsReadOnly(i) =>
                LET k == NameOf(i)
                    pre == Before(i, last.impl, last.value.o)
                IN  /\ (IF pre.ok THEN pre.obj[k] # Absent ELSE FALSE) =>
                          last.res = Err(ReadOnlyError(k))
                    /\ /\ last.value.o[k] # Absent
                       /\ \A j \in 1..(i - 1) : ~(ConsumesKey(j) /\ NameOf(j) = k)
                       => ~last.res.ok
                    /\ last.res.ok =>
                          last.res.v.s[Field(i).ident] = type_default(TypeOf(i, last.impl))

\* C2 witness: the second field is read-only, its key holds null, the first
\* field parsed, and the call failed with the read-only error.
C2_Witness ==
    /\ Parsed /\ IsObject(last.value)
    /\ Len(args.fields) = 2 /\ ~Field(2).skip /\ IsReadOnly(2) /\ ~IsReadOnly(1)
    /\ last.value.o[NameOf(2)] = Null
    /\ last.value.o[NameOf(1)] # Absent
    /\ last.res = Err(ReadOnlyError(NameOf(2)))

\* the keys field i may write to the object to_json builds
KeysOf(i) ==
    IF Field(i).flatten
    THEN IF Field(i).ty = "Inner" THEN {RenameTo} ELSE {}
    ELSE {NameOf(i)}

\* C3 as claimed: a write-only field, flatten or not, emits nothing: every key
\* of the object to_json returns is a key of a field that is not skip and not
\* write-only.
C3_WriteOnlyOmitted ==
    last.op = "to_json" =>
        \A k \in MapKeys(last.out.o) :
            \E i \in NonSkip : ~IsWriteOnly(i) /\ k \in KeysOf(i)

\* C4 as claimed: for a type none of whose fields is read-only, parsing what
\* to_json returned succeeds and gives back the instance.
C4_RoundTripWithoutReadOnly ==
    last.op = "round_trip" /\ (\A i \in 1..Len(args.fields) : ~IsReadOnly(i)) =>
        last.res = Ok(StructV(last.self))

\* the value of field i passes the field's validators
PassesValidators(i, value) ==
    \A n \in 1..Len(Field(i).validator) :
        value.k \in {"int", "some"} => value.v <= Field(i).validator[n].arg

\* C4 amended: parsing what to_json returned gives back the instance x for a
\* type whose fields are all read-write (neither read-only nor write-only)
\* and not skip, write pairwise disjoint keys, and are not flattened under
\* deny_unknown_fields, when x's values pass the validators of their fields
\* and a field with a factory default does not hold the empty option.
C4_RoundTrip ==
    /\ last.op = "round_trip"
    /\ \A i \in 1..Len(args.fields) :
          /\ ~Field(i).skip /\ ~IsReadOnly(i) /\ ~IsWriteOnly(i)
          /\ ~(Field(i).flatten /\ args.deny_unknown_fields)
          /\ Field(i).flatten \/ PassesValidators(i, last.self[Field(i).ident])
          /\ ~(~Field(i).flatten /\ Field(i).default = "Function"
               /\ last.self[Field(i).ident] = NoneV)
    /\ \A i, j \in 1..Len(args.fields) : i # j => KeysOf(i) \cap KeysOf(j) = {}
    => last.res = Ok(StructV(last.self))

\* C4 witness: an instance with a flattened field and a field with a default
\* that holds another value than the default came back from the round trip.
C4_Witness ==
    /\ last.op = "round_trip"
    /\ Len(args.fields) = 2 /\ Field(1).flatten /\ ~Field(2).flatten
    /\ Field(2).default # None
    /\ last.self[Field(2).ident] # default_value(Field(2).default, TypeOf(2, last.impl))
    /\ last.res = Ok(StructV(last.self))

\* the default of field i and the value its type parses from the number n
DefaultOf(i, p) ==
    IF Field(i).default = "Function" THEN function_default(TypeOf(i, p))
    ELSE type_default(TypeOf(i, p))
FromNumber(i, p, n) == IF TypeOf(i, p) = "OptInt" THEN SomeV(n) ELSE IntV(n)
\* what the statements of the fields up to and including field i bind
Through(i, p, m) ==
    deserialize_all(SubSeq(Code.deserialize_fields, 1, i), 1, ParamsOf(p), m, <<>>)

LeftOver(m) ==
    MapKeys(m) \ {NameOf(i) : i \in {j \in 1..Len(args.fields) : ConsumesKey(j)}}
FieldsParse(p, m) == Through(Len(args.fields), p, m).ok

\* C6: with deny_unknown_fields set, parse fails with an unknown-field error
\* exactly when every field statement succeeds and the input holds a key that
\* no non-flatten read-write field consumes, and the error names one such key;
\* without the attribute parse never fails so, and succeeds whenever the field
\* statements do, the keys left over being dropped.
C6_UnknownFields ==
    Parsed /\ IsObject(last.value) =>
        LET left == LeftOver(last.value.o)
            fields_ok == FieldsParse(last.impl, last.value.o)
            unknown == IF last.res.ok THEN FALSE ELSE last.res.e.kind = "unknown_field"
        IN  /\ unknown <=> (args.deny_unknown_fields /\ fields_ok /\ left # {})
            /\ unknown => \E k \in left : last.res.e.names = {k}
            /\ last.res.ok <=> (fields_ok /\ ~unknown)
            /\ last.res.ok =>
                  DOMAIN last.res.v.s = {Field(i).ident : i \in 1..Len(args.fields)}

\* C6 witness: parse of {"a": v, "c": 1} into a type whose field a is known
\* and that denies unknown fields failed naming "c".
C6_Witness ==
    /\ Parsed /\ IsObject(last.value) /\ args.deny_unknown_fields
    /\ ConsumesKey(1) /\ NameOf(1) = "a"
    /\ MapKeys(last.value.o) = {"a", "c"} /\ last.value.o["c"] = Num(1)
    /\ last.res = Err(UnknownField({"c"}))

\* what field i of instance self writes under key k: nothing for a skip field,
\* a write-only field that is not flatten, a value that serializes to nothing
\* or a flatten field whose value is not an object
Written(i, p, self, k) ==
    LET value == self[Field(i).ident]
        json == CASE value.k = "int" -> Num(value.v)
                  [] value.k = "some" -> Num(value.v)
                  [] value.k = "none" -> Absent
                  [] value.k = "struct" ->
                        Obj([x \in Keys |-> IF x = RenameTo
                                            THEN Num(value.s[RenameTo].v)
                                            ELSE Absent])
    IN  IF Field(i).skip THEN Absent
        ELSE IF Field(i).flatten
        THEN IF value.k = "struct" /\ k = RenameTo THEN Num(value.s[RenameTo].v)
             ELSE Absent
        ELSE IF ~IsWriteOnly(i) /\ k = NameOf(i) THEN json ELSE Absent
Writers(p, self, k) ==
    {i \in 1..Len(args.fields) : Written(i, p, self, k) # Absent}
LastWriter(p, self, k) ==
    CHOOSE i \in Writers(p, self, k) : \A j \in Writers(p, self, k) : j <= i

\* C7: the object to_json returns holds under each key the value written by
\* the last field in declaration order that writes that key, the skip fields
\* writing nothing and a flattened field writing its inner entries; a key no
\* field writes is missing, and a value that serializes to nothing neither
\* overwrites an entry nor puts null.
C7_LastWriteWins ==
    last.op = "to_json" =>
        \A k \in Keys :
            /\ last.out.o[k] # Null
            /\ last.out.o[k] =
                  IF Writers(last.impl, last.self, k) = {} THEN Absent
                  ELSE Written(LastWriter(last.impl, last.self, k), last.impl,
                               last.self, k)

\* C7 witness: two fields wrote different values under one key and the output
\* holds the value of the one declared later.
C7_Witness ==
    /\ last.op = "to_json"
    /\ \E k \in Keys : \E i, j \in 1..Len(args.fields) :
          /\ i < j
          /\ Written(i, last.impl, last.self, k) # Absent
          /\ Written(j, last.impl, last.self, k) # Absent
          /\ Written(i, last.impl, last.self, k) # Written(j, last.impl, last.self, k)
          /\ last.out.o[k] = Written(j, last.impl, last.self, k)

Registered == last.op = "register"
ImplOf(i) == expanded.v.impls[i]

\* C8 as claimed: register of a type with a referenced schema, plain or
\* concrete, builds the schema body and inserts it only when the name is not
\* yet in the registry; called with the name present it builds nothing and
\* leaves the registry as it was.
C8_RegisterOnlyWhenAbsent ==
    Registered /\ ImplOf(last.impl).register # "inline" =>
        LET name == ImplOf(last.impl).name
        IN  IF last.before[name] # Absent
            THEN last.built = <<>> /\ registry = last.before
            ELSE /\ \E n \in 1..Len(last.built) : last.built[n] = name
                 /\ registry[name] # Absent

\* field i has both access modes set, the type-level flags counted
AccessConflict(i) ==
    /\ args.read_only_all \/ Field(i).read_only
    /\ args.write_only_all \/ Field(i).write_only

\* C9 as claimed: generate returns an error and no code for every descriptor
\* with a field, skip or not, whose read-only and write-only modes are both
\* set, with inline and a concrete type, or with a type-level example and a
\* concrete type.
C9_ConflictsRejected ==
    /\ last.op = "generate"
    /\ \/ \E i \in 1..Len(args.fields) : AccessConflict(i)
       \/ args.inline /\ args.concretes # <<>>
       \/ args.example # None /\ args.concretes # <<>>
    => ~expanded.ok

\* C10: of a template with two concrete types of different names, each impl
\* has the name of its own concrete type and a schema_ref that is a reference
\* to that name; register of one puts an entry under its own name and leaves
\* the other's as it was; and the entry under each name holds the example and
\* the type parameter declared for that concrete type.
C10_ConcreteIsolation ==
    /\ expanded.ok
    /\ Len(args.concretes) = 2
    /\ args.concretes[1].name # args.concretes[2].name
    => \A i \in 1..2 :
          LET c == args.concretes[i]
              other == args.concretes[3 - i]
          IN  /\ ImplOf(i).name = c.name
              /\ ImplOf(i).schema_ref = [kind |-> "Reference", name |-> c.name]
              /\ registry[c.name] # Absent =>
                    /\ registry[c.name].example = c.example
                    /\ ~Field(1).skip =>
                          registry[c.name].properties[1].schema_ref = c.params
              /\ Registered /\ last.impl = i =>
                    /\ registry[c.name] # Absent
                    /\ registry[other.name] = last.before[other.name]

\* C10 witness: both concrete types are registered, under different names and
\* with different examples.
C10_Witness ==
    /\ expanded.ok /\ Len(args.concretes) = 2 /\ Registered
    /\ registry[args.concretes[1].name] # Absent
    /\ registry[args.concretes[2].name] # Absent
    /\ args.concretes[1].name # args.concretes[2].name
    /\ args.concretes[1].example # args.concretes[2].example
    /\ registry[args.concretes[1].name].example = args.concretes[1].example
    /\ registry[args.concretes[2].name].example = args.concretes[2].example
    /\ registry[args.concretes[1].name] # registry[args.concretes[2].name]

\* what the parser of Inner returns on a copy of map m: the struct holding the
\* number under "c", when there is one
InnerOf(m) == StructV([id \in {RenameTo} |-> IntV(m[RenameTo].n)])
InnerParses(m) == m[RenameTo].t = "num"

\* the statement of a non-skip flatten field i, reached with working map
\* pre.obj, parses the field from a copy of the whole map, removes no key, and
\* returns the inner parser's failure as the error of parse
ParsedFromCopy(i) ==
    LET pre == Before(i, last.impl, last.value.o)
        r == Through(i, last.impl, last.value.o)
    IN  IF InnerParses(pre.obj)
        THEN IF r.ok THEN r.bound[Field(i).ident] = InnerOf(pre.obj) /\ r.obj = pre.obj
             ELSE FALSE
        ELSE /\ ~r.ok
             /\ IF r.ok THEN FALSE ELSE r.at = i /\ last.res = Err(r.e)

\* C11 as claimed: every non-skip flatten field, whatever its access mode, is
\* parsed from a copy of the whole working map as it stands when the field is
\* reached, and its statement removes no key.
C11_FlattenBeforeReadOnly ==
    Parsed /\ IsObject(last.value) =>
        \A i \in 1..Len(args.fields) :
            ~Field(i).skip /\ Field(i).flatten
            /\ Before(i, last.impl, last.value.o).ok
            => ParsedFromCopy(i)

\* C11 amended: a non-skip flatten field that is not read-only is parsed from
\* a copy of the whole working map as it stands when the field is reached,
\* its statement removes no key, and the inner parser's failure is the error
\* of parse; a read-only flatten field is not parsed: it fails with the
\* read-only error when the working map holds the field's own serialized
\* name, and is bound to its type's default otherwise.
C11_FlattenFromCopy ==
    Parsed /\ IsObject(last.value) =>
        \A i \in 1..Len(args.fields) :
            LET pre == Before(i, last.impl, last.value.o)
                r == Through(i, last.impl, last.value.o)
            IN  ~Field(i).skip /\ Field(i).flatten /\ pre.ok =>
                    IF ~(args.read_only_all \/ Field(i).read_only)
                    THEN ParsedFromCopy(i)
                    ELSE IF pre.obj[NameOf(i)] # Absent
                    THEN IF r.ok THEN FALSE
                         ELSE r.at = i /\ last.res = Err(ReadOnlyError(NameOf(i)))
                    ELSE IF r.ok
                         THEN /\ r.bound[Field(i).ident] = type_default(TypeOf(i, last.impl))
                              /\ r.obj = pre.obj
                         ELSE FALSE

\* C11 witness: a flatten field read "c" from the working map and a field
\* declared after it, whose serialized name is "c", read the same entry.
C11_Witness ==
    /\ Parsed /\ IsObject(last.value) /\ last.res.ok
    /\ Len(args.fields) = 2
    /\ Field(1).flatten /\ ~Field(1).skip /\ ~(args.read_only_all \/ Field(1).read_only)
    /\ ConsumesKey(2) /\ NameOf(2) = RenameTo
    /\ last.value.o[RenameTo] = Num(1)
    /\ last.res.v.s[Field(1).ident] = InnerOf(last.value.o)
    /\ last.res.v.s[Field(2).ident] \in {IntV(1), SomeV(1)}

====
